---- MODULE Spec2Model ----
(***************************************************************************)
(* Model of src/src/automata.py: load_automata, process, convert_to_dfa.   *)
(*                                                                         *)
(* A Python str is a sequence of one-character TLA+ strings, so that       *)
(* sorted(), ','.join(), str.split(',') and f'q{n}' are computed           *)
(* character by character.  A Python list is a sequence, a dict is a       *)
(* function whose DOMAIN is the key set.  A value stored under             *)
(* transitions[origin][symbol] carries its Python type (list or str),      *)
(* because process indexes it with [0].                                    *)
(*                                                                         *)
(* A local value that is used several times is bound once with             *)
(*   CHOOSE r \in {body(x) : x \in {value}} : TRUE                         *)
(* which equals LET x == value IN body(x) and is evaluated only once when  *)
(* enabledness of an action is computed.                                   *)
(***************************************************************************)
EXTENDS Integers, Sequences, FiniteSets, TLC

(* ---------------------------- bounds ----------------------------------- *)
MaxAlphabet == 2
MaxLines == 2
MaxWordLen == 2
MaxWords == 1

(* ------------------------ Python str helpers --------------------------- *)
Chars == <<",", "0", "1", "2", "3", "4", "5", "6", "7", "8", "9", "a", "b", "q">>

CodePoints == <<44, 48, 49, 50, 51, 52, 53, 54, 55, 56, 57, 97, 98, 113>>

Ord(c) == CodePoints[CHOOSE i \in 1..Len(Chars) : Chars[i] = c]

RECURSIVE StrLess(_, _)
StrLess(a, b) ==
    IF b = <<>> THEN FALSE
    ELSE IF a = <<>> THEN TRUE
    ELSE IF Ord(Head(a)) # Ord(Head(b)) THEN Ord(Head(a)) < Ord(Head(b))
    ELSE StrLess(Tail(a), Tail(b))

RECURSIVE Sorted(_)
Sorted(S) ==
    IF S = {} THEN <<>>
    ELSE CHOOSE r \in {<<m>> \o Sorted(S \ {m}) :
                         m \in {x \in S : \A y \in S : ~StrLess(y, x)}} : TRUE

RECURSIVE Join(_, _)
Join(sep, list) ==
    IF list = <<>> THEN <<>>
    ELSE IF Len(list) = 1 THEN list[1]
    ELSE list[1] \o sep \o Join(sep, Tail(list))

RECURSIVE Split(_, _)
Split(s, sep) ==
    IF \A i \in 1..Len(s) : s[i] # sep THEN <<s>>
    ELSE LET i == CHOOSE k \in 1..Len(s) :
                      s[k] = sep /\ \A j \in 1..(k - 1) : s[j] # sep
         IN  <<SubSeq(s, 1, i - 1)>> \o Split(SubSeq(s, i + 1, Len(s)), sep)

RECURSIVE FormatInt(_)
FormatInt(n) ==
    IF n < 10 THEN <<Chars[n + 2]>>
    ELSE FormatInt(n \div 10) \o <<Chars[(n % 10) + 2]>>

InList(x, list) == \E i \in 1..Len(list) : list[i] = x

Elems(list) == {list[i] : i \in 1..Len(list)}

ListVal(v) == [type |-> "list", val |-> v]

StrVal(v) == [type |-> "str", val |-> v]

Index0(x) == IF x.type = "list" THEN x.val[1] ELSE <<x.val[1]>>

(* ---------------------------- inputs ----------------------------------- *)
SeqsUpTo(S, n) == UNION {[1..k -> S] : k \in 0..n}

Names == {<<"q">> \o FormatInt(i) : i \in {0, 1}}

Symbols == {<<"a">>, <<"b">>}

AlphabetLists == SeqsUpTo(Symbols, MaxAlphabet)

NameLists == {Sorted(S) : S \in SUBSET Names}

LineChoices == {<<o, s, d>> : o \in Names, s \in Symbols, d \in Names} \cup {<<>>}

LineLists == SeqsUpTo(LineChoices, MaxLines)

Descriptions ==
    [alphabet : AlphabetLists, states : NameLists, final_states : NameLists,
     initial_state : Names, lines : LineLists]

ValidDescriptions ==
    UNION {[alphabet : {al}, states : {st},
            final_states : {Sorted(S) : S \in SUBSET Elems(st)},
            initial_state : Elems(st),
            lines : SeqsUpTo({<<o, sy, d>> : o \in Elems(st), sy \in Elems(al),
                                              d \in Elems(st)}, MaxLines)] :
           al \in AlphabetLists, st \in NameLists}

ProcessDescriptions ==
    {d \in ValidDescriptions :
        d.states = Sorted(Names) /\ d.alphabet \in {Sorted(S) : S \in SUBSET Symbols}}

Words == SeqsUpTo({"a", "b"}, MaxWordLen)

WordLists == SeqsUpTo(Words, MaxWords)

(* -------------------------- load_automata ------------------------------ *)
NoAutomata == [alphabet |-> <<>>, states |-> <<>>, final_states |-> <<>>,
               initial_state |-> <<>>, transitions |-> <<>>]

AddTransition(transitions, parts) ==
    LET origin == parts[1]
        symbol == parts[2]
        destination == parts[3]
        row == IF origin \in DOMAIN transitions THEN transitions[origin] ELSE <<>>
        old == IF symbol \in DOMAIN row THEN row[symbol].val ELSE <<>>
        newrow == [s \in (DOMAIN row) \cup {symbol} |->
                      IF s = symbol THEN ListVal(Append(old, destination)) ELSE row[s]]
    IN  [o \in (DOMAIN transitions) \cup {origin} |->
            IF o = origin THEN newrow ELSE transitions[o]]

RECURSIVE ParseLines(_, _, _)
ParseLines(lines, i, transitions) ==
    IF i > Len(lines) THEN [ok |-> TRUE, transitions |-> transitions]
    ELSE IF Len(lines[i]) # 3 THEN [ok |-> FALSE, transitions |-> transitions]
    ELSE ParseLines(lines, i + 1, AddTransition(transitions, lines[i]))

RECURSIVE Dedup(_)
Dedup(list) ==
    IF list = <<>> THEN <<>>
    ELSE LET rest == Dedup(SubSeq(list, 1, Len(list) - 1))
             x == list[Len(list)]
         IN  IF InList(x, rest) THEN rest ELSE Append(rest, x)

OriginOrder(lines) == Dedup([i \in 1..Len(lines) |-> lines[i][1]])

SymbolOrder(lines, origin) ==
    Dedup(SelectSeq([i \in 1..Len(lines) |-> IF lines[i][1] = origin THEN lines[i][2] ELSE <<>>],
                    LAMBDA s : s # <<>>))

InitialOk(initial_state, states) == InList(initial_state, states)

RECURSIVE FinalsOk(_, _, _)
FinalsOk(final_states, states, i) ==
    IF i > Len(final_states) THEN TRUE
    ELSE IF ~InList(final_states[i], states) THEN FALSE
    ELSE FinalsOk(final_states, states, i + 1)

DestinationsOk_Unchecked(dests, states, i) == TRUE

RECURSIVE DestinationsOk(_, _, _)
DestinationsOk(dests, states, i) ==
    IF i > Len(dests) THEN TRUE
    ELSE IF ~InList(dests[i], states) THEN FALSE
    ELSE DestinationsOk(dests, states, i + 1)

RECURSIVE CheckSymbols(_, _, _, _, _)
CheckSymbols(row, symbols, alphabet, states, i) ==
    IF i > Len(symbols) THEN "ok"
    ELSE IF ~InList(symbols[i], alphabet) THEN "Transição utiliza símbolo inválido."
    ELSE IF ~DestinationsOk(row[symbols[i]].val, states, 1)
         THEN "Transição leva a estado que não está no conjunto de estados."
    ELSE CheckSymbols(row, symbols, alphabet, states, i + 1)

RECURSIVE CheckTransitions(_, _, _, _, _, _)
CheckTransitions(transitions, lines, origins, alphabet, states, i) ==
    IF i > Len(origins) THEN "ok"
    ELSE IF ~InList(origins[i], states)
         THEN "Transição parte de estado que não está no conjunto de estados."
    ELSE LET r == CheckSymbols(transitions[origins[i]], SymbolOrder(lines, origins[i]),
                               alphabet, states, 1)
         IN  IF r # "ok" THEN r
             ELSE CheckTransitions(transitions, lines, origins, alphabet, states, i + 1)

load_automata(desc) ==
    LET parsed == ParseLines(desc.lines, 1, <<>>)
        fail(msg) == [ok |-> FALSE, error |-> msg, automata |-> NoAutomata]
    IN  IF ~parsed.ok THEN fail("Formato de transição inválido.")
        ELSE IF ~InitialOk(desc.initial_state, desc.states)
             THEN fail("Estado inicial não está presente no conjunto de estados.")
        ELSE IF ~FinalsOk(desc.final_states, desc.states, 1)
             THEN fail("Estado final não está presente no conjunto de estados.")
        ELSE LET r == CheckTransitions(parsed.transitions, desc.lines,
                                       OriginOrder(desc.lines), desc.alphabet,
                                       desc.states, 1)
             IN  IF r # "ok" THEN fail(r)
                 ELSE [ok |-> TRUE, error |-> "",
                       automata |-> [alphabet |-> desc.alphabet,
                                     states |-> desc.states,
                                     final_states |-> desc.final_states,
                                     initial_state |-> desc.initial_state,
                                     transitions |-> parsed.transitions]]

(* ------------------------------ process -------------------------------- *)
HasTransition(automata, current_state, symbol) ==
    /\ current_state \in DOMAIN automata.transitions
    /\ symbol \in DOMAIN automata.transitions[current_state]

FirstDestination_Last(automata, current_state, symbol) ==
    LET x == automata.transitions[current_state][symbol]
    IN  IF x.type = "list" THEN x.val[Len(x.val)] ELSE <<x.val[Len(x.val)]>>

FirstDestination(automata, current_state, symbol) ==
    Index0(automata.transitions[current_state][symbol])

RECURSIVE WordLoop(_, _, _, _, _)
WordLoop(automata, word, i, current_state, results) ==
    IF i > Len(word)
    THEN [current_state |-> current_state, is_valid |-> TRUE, results |-> results]
    ELSE LET symbol == <<word[i]>>
         IN  IF ~InList(symbol, automata.alphabet)
             THEN [current_state |-> current_state, is_valid |-> FALSE,
                   results |-> Append(results, "INVALIDA")]
             ELSE IF HasTransition(automata, current_state, symbol)
             THEN WordLoop(automata, word, i + 1,
                           FirstDestination(automata, current_state, symbol), results)
             ELSE [current_state |-> current_state, is_valid |-> FALSE,
                   results |-> Append(results, "REJEITA")]

RECURSIVE ProcessFrom(_, _, _, _)
ProcessFrom(automata, words, k, results) ==
    IF k > Len(words) THEN results
    ELSE LET r == WordLoop(automata, words[k], 1, automata.initial_state, results)
         IN  ProcessFrom(automata, words, k + 1,
                 IF r.is_valid
                 THEN IF InList(r.current_state, automata.final_states)
                      THEN Append(r.results, "ACEITA")
                      ELSE Append(r.results, "REJEITA")
                 ELSE r.results)

process(automata, words) == ProcessFrom(automata, words, 1, <<>>)

(* --------------------------- convert_to_dfa ---------------------------- *)
HasName(new_states, name) == \E i \in 1..Len(new_states) : new_states[i].name = name

Lookup(new_states, name) ==
    new_states[CHOOSE i \in 1..Len(new_states) : new_states[i].name = name].id

get_state_name(new_states, state_counter, states_set) ==
    CHOOSE r \in
        {IF ~HasName(new_states, name)
         THEN [new_states |-> Append(new_states,
                                     [name |-> name,
                                      id |-> <<"q">> \o FormatInt(state_counter)]),
               state_counter |-> state_counter + 1,
               result |-> <<"q">> \o FormatInt(state_counter)]
         ELSE [new_states |-> new_states, state_counter |-> state_counter,
               result |-> Lookup(new_states, name)] :
         name \in {Join(<<",">>, sorted) : sorted \in {Sorted(states_set)}}} : TRUE

Pop_Peek(states_to_process) ==
    [item |-> states_to_process[Len(states_to_process)],
     rest |-> states_to_process]

Pop(states_to_process) ==
    [item |-> states_to_process[Len(states_to_process)],
     rest |-> SubSeq(states_to_process, 1, Len(states_to_process) - 1)]

CurrentStates(current) == Split(current, ",")

AnyFinal(automata, current) ==
    \E i \in 1..Len(CurrentStates(current)) :
        InList(CurrentStates(current)[i], automata.final_states)

NextStates(automata, current_states, symbol) ==
    UNION {{automata.transitions[current_states[i]][symbol].val[j] :
              j \in 1..Len(automata.transitions[current_states[i]][symbol].val)} :
           i \in {k \in 1..Len(current_states) :
                    HasTransition(automata, current_states[k], symbol)}}

SymbolBody(automata, current, processed, symbol, acc) ==
    CHOOSE r \in
        {IF next_states = {} THEN acc
         ELSE CHOOSE r2 \in
                {[new_states |-> g.new_states,
                  state_counter |-> g.state_counter,
                  row |-> [s \in (DOMAIN acc.row) \cup {symbol} |->
                              IF s = symbol THEN StrVal(g.result) ELSE acc.row[s]],
                  states_to_process |->
                      IF g.result \notin processed
                      THEN Append(acc.states_to_process, g.result)
                      ELSE acc.states_to_process,
                  enqueued |->
                      IF g.result \notin processed
                      THEN Append(acc.enqueued, g.result)
                      ELSE acc.enqueued] :
                 g \in {get_state_name(acc.new_states, acc.state_counter, next_states)}} : TRUE :
         next_states \in {NextStates(automata, CurrentStates(current), symbol)}} : TRUE

RECURSIVE SymbolLoop(_, _, _, _, _)
SymbolLoop(automata, current, processed, i, acc) ==
    IF i > Len(automata.alphabet) THEN acc
    ELSE CHOOSE r \in
            {SymbolLoop(automata, current, processed, i + 1, a) :
               a \in {SymbolBody(automata, current, processed, automata.alphabet[i], acc)}} : TRUE

Orderings(S) == {p \in [1..Cardinality(S) -> S] : \A x \in S : \E i \in DOMAIN p : p[i] = x}

Result_SortedAlphabet(automata, new_states, final_list, initial_state, dfa_transitions) ==
    [alphabet |-> Sorted({automata.alphabet[i] : i \in 1..Len(automata.alphabet)}),
     states |-> [i \in 1..Len(new_states) |-> new_states[i].id],
     final_states |-> final_list,
     initial_state |-> initial_state,
     transitions |-> dfa_transitions]

Result_KeysAsStates(automata, new_states, final_list, initial_state, dfa_transitions) ==
    [alphabet |-> automata.alphabet,
     states |-> [i \in 1..Len(new_states) |-> new_states[i].name],
     final_states |-> final_list,
     initial_state |-> initial_state,
     transitions |-> dfa_transitions]

Result(automata, new_states, final_list, initial_state, dfa_transitions) ==
    [alphabet |-> automata.alphabet,
     states |-> [i \in 1..Len(new_states) |-> new_states[i].id],
     final_states |-> final_list,
     initial_state |-> initial_state,
     transitions |-> dfa_transitions]

(* ------------------------------ state ---------------------------------- *)
VARIABLES pc, desc, automata, error, words, results,
          new_states, dfa_transitions, dfa_final_states, state_counter,
          initial_state, states_to_process, processed_states, enqueued, dfa

vars == <<pc, desc, automata, error, words, results,
          new_states, dfa_transitions, dfa_final_states, state_counter,
          initial_state, states_to_process, processed_states, enqueued, dfa>>

convVars == <<new_states, dfa_transitions, dfa_final_states, state_counter,
              initial_state, states_to_process, processed_states, enqueued>>

InitWith(descriptions) ==
    /\ pc = "start"
    /\ desc \in descriptions
    /\ automata = NoAutomata
    /\ error = ""
    /\ words = <<>>
    /\ results = <<>>
    /\ new_states = <<>>
    /\ dfa_transitions = <<>>
    /\ dfa_final_states = {}
    /\ state_counter = 0
    /\ initial_state = <<>>
    /\ states_to_process = <<>>
    /\ processed_states = {}
    /\ enqueued = <<>>
    /\ dfa = NoAutomata

Init == InitWith(Descriptions)

Load ==
    /\ pc = "start"
    /\ \E r \in {load_automata(desc)} :
          /\ pc' = IF r.ok THEN "loaded" ELSE "error"
          /\ automata' = r.automata
          /\ error' = r.error
    /\ UNCHANGED <<desc, words, results, convVars, dfa>>

Process ==
    /\ pc = "loaded"
    /\ \E ws \in WordLists :
          /\ words' = ws
          /\ results' = process(automata, ws)
    /\ pc' = "processed"
    /\ UNCHANGED <<desc, automata, error, convVars, dfa>>

ConvertStart ==
    /\ pc = "loaded"
    /\ \E g \in {get_state_name(<<>>, 0, {automata.initial_state})} :
          /\ new_states' = g.new_states
          /\ state_counter' = g.state_counter
          /\ initial_state' = g.result
          /\ states_to_process' = <<g.result>>
          /\ enqueued' = <<g.result>>
    /\ dfa_transitions' = <<>>
    /\ dfa_final_states' = {}
    /\ processed_states' = {}
    /\ pc' = "converting"
    /\ UNCHANGED <<desc, automata, error, words, results, dfa>>

ConvertStep ==
    /\ pc = "converting"
    /\ states_to_process # <<>>
    /\ \E p \in {Pop(states_to_process)} :
       \E acc \in {SymbolLoop(automata, p.item, processed_states \cup {p.item}, 1,
                       [new_states |-> new_states, state_counter |-> state_counter,
                        row |-> <<>>, states_to_process |-> p.rest,
                        enqueued |-> enqueued])} :
          /\ processed_states' = processed_states \cup {p.item}
          /\ dfa_final_states' = IF AnyFinal(automata, p.item)
                                 THEN dfa_final_states \cup {p.item}
                                 ELSE dfa_final_states
          /\ dfa_transitions' = [c \in (DOMAIN dfa_transitions) \cup {p.item} |->
                                    IF c = p.item THEN acc.row ELSE dfa_transitions[c]]
          /\ new_states' = acc.new_states
          /\ state_counter' = acc.state_counter
          /\ states_to_process' = acc.states_to_process
          /\ enqueued' = acc.enqueued
    /\ UNCHANGED <<pc, desc, automata, error, words, results, initial_state, dfa>>

ConvertReturn ==
    /\ pc = "converting"
    /\ states_to_process = <<>>
    /\ \E final_list \in Orderings(dfa_final_states) :
       \E r \in {Result(automata, new_states, final_list, initial_state, dfa_transitions)} :
          dfa' = r
    /\ pc' = "converted"
    /\ UNCHANGED <<desc, automata, error, words, results, convVars>>

ProcessDfa ==
    /\ pc = "converted"
    /\ \E ws \in WordLists :
          /\ words' = ws
          /\ results' = process(dfa, ws)
    /\ pc' = "processed_dfa"
    /\ UNCHANGED <<desc, automata, error, convVars, dfa>>

Next == Load \/ Process \/ ConvertStart \/ ConvertStep \/ ConvertReturn \/ ProcessDfa

(* Spec: every bounded description, every operation.                       *)
Spec == Init /\ [][Next]_vars

(* LoadSpec: load_automata alone, on every bounded description.            *)
LoadSpec == Init /\ [][Load]_vars

(* ProcessSpec: load_automata then process.  process reads neither states  *)
(* nor the order of alphabet, so these are fixed.                          *)
ProcessNext == Load \/ Process

ProcessInit == InitWith(ProcessDescriptions)

ProcessSpec == ProcessInit /\ [][ProcessNext]_vars

(* ConvertSpec: load_automata then convert_to_dfa, on every accepted        *)
(* description.                                                            *)
ConvertNext == Load \/ ConvertStart \/ ConvertStep \/ ConvertReturn

ConvertInit == InitWith(ValidDescriptions)

ConvertSpec == ConvertInit /\ [][ConvertNext]_vars

(* convert_to_dfa is straight-line sequential code: once called, the next  *)
(* loop iteration or the return statement is always executed.              *)
FairSpec == ConvertSpec /\ WF_vars(ConvertStep) /\ WF_vars(ConvertReturn)

(* ------------------------- claim vocabulary ---------------------------- *)
OverAlphabet(A, w) == \A i \in 1..Len(w) : InList(<<w[i]>>, A.alphabet)

TestWords(A) == {w \in Words : OverAlphabet(A, w)}

Deterministic(A) ==
    \A o \in DOMAIN A.transitions : \A s \in DOMAIN A.transitions[o] :
        Len(A.transitions[o][s].val) <= 1

NfaReach(A, w) ==
    LET f[i \in 0..Len(w)] ==
            IF i = 0 THEN {A.initial_state}
            ELSE {d \in Elems(A.states) :
                    \E o \in f[i - 1] :
                        /\ o \in DOMAIN A.transitions
                        /\ <<w[i]>> \in DOMAIN A.transitions[o]
                        /\ d \in Elems(A.transitions[o][<<w[i]>>].val)}
    IN  f[Len(w)]

NfaAccepts(A, w) == NfaReach(A, w) \cap Elems(A.final_states) # {}

DfaRun(D, w) ==
    LET f[i \in 0..Len(w)] ==
            IF i = 0 THEN D.initial_state
            ELSE IF f[i - 1] = <<>> THEN <<>>
            ELSE IF f[i - 1] \in DOMAIN D.transitions
                    /\ <<w[i]>> \in DOMAIN D.transitions[f[i - 1]]
                 THEN D.transitions[f[i - 1]][<<w[i]>>].val
                 ELSE <<>>
    IN  f[Len(w)]

DfaAccepts(D, w) == DfaRun(D, w) # <<>> /\ DfaRun(D, w) \in Elems(D.final_states)

RefRun(A, w) ==
    LET f[i \in 0..Len(w)] ==
            IF i = 0 THEN A.initial_state
            ELSE IF f[i - 1] = <<>> THEN <<>>
            ELSE IF f[i - 1] \in DOMAIN A.transitions
                    /\ <<w[i]>> \in DOMAIN A.transitions[f[i - 1]]
                 THEN A.transitions[f[i - 1]][<<w[i]>>].val[1]
                 ELSE <<>>
    IN  f[Len(w)]

RefOutcome(A, w) ==
    IF RefRun(A, w) = <<>> THEN "REJEITA"
    ELSE IF RefRun(A, w) \in Elems(A.final_states) THEN "ACEITA"
    ELSE "REJEITA"

WellFormedLines(d) == {d.lines[i] : i \in {k \in 1..Len(d.lines) : Len(d.lines[k]) = 3}}

Violates(d) ==
    \/ d.initial_state \notin Elems(d.states)
    \/ \E f \in Elems(d.final_states) : f \notin Elems(d.states)
    \/ \E l \in WellFormedLines(d) :
          l[1] \notin Elems(d.states) \/ l[3] \notin Elems(d.states)
          \/ l[2] \notin Elems(d.alphabet)

StructurallyValid(A) ==
    /\ A.initial_state \in Elems(A.states)
    /\ Elems(A.final_states) \subseteq Elems(A.states)
    /\ \A o \in DOMAIN A.transitions :
          /\ o \in Elems(A.states)
          /\ \A s \in DOMAIN A.transitions[o] :
                /\ s \in Elems(A.alphabet)
                /\ Elems(A.transitions[o][s].val) \subseteq Elems(A.states)

Returned == pc \notin {"start", "error"}

Converted == pc \in {"converted", "processed_dfa"}

(* C1: for every valid automaton A and every word w over its alphabet, the *)
(* automaton returned by convert_to_dfa accepts w (following its single    *)
(* recorded transition per symbol) iff A accepts w under NFA semantics.    *)
C1_SameLanguage ==
    Converted => \A w \in TestWords(automata) :
                    DfaAccepts(dfa, w) <=> NfaAccepts(automata, w)

(* C2: every word that contains a symbol outside the alphabet gets the     *)
(* outcome INVALIDA, wherever the first such symbol stands in the word.    *)
C2_ForeignSymbolInvalida ==
    pc = "processed" =>
        \A k \in 1..Len(words) :
            ~OverAlphabet(automata, words[k]) =>
                k \in DOMAIN results /\ results[k] = "INVALIDA"

(* C3: load_automata returns an automaton only when the four structural    *)
(* invariants hold, and raises an error, returning no automaton, whenever  *)
(* the description violates one of them.                                   *)
C3_LoadValidates ==
    /\ Returned => StructurallyValid(automata) /\ ~Violates(desc)
    /\ (pc # "start" /\ Violates(desc)) =>
          pc = "error" /\ error # "" /\ automata = NoAutomata

C3_Witness ==
    /\ pc = "error"
    /\ error = "Transição leva a estado que não está no conjunto de estados."
    /\ desc.initial_state \in Elems(desc.states)

C5_ProcessAgreesAfterConversion ==
    (pc = "processed_dfa" /\ Deterministic(automata)
       /\ \A k \in 1..Len(words) : OverAlphabet(automata, words[k]))
    => results = process(automata, words)

(* C6: the automaton returned by convert_to_dfa has the input's alphabet   *)
(* and records at most one destination per (state, symbol) pair.           *)
C6_AlphabetKeptAndSingleDestination ==
    Converted =>
        /\ dfa.alphabet = automata.alphabet
        /\ \A o \in DOMAIN dfa.transitions : \A s \in DOMAIN dfa.transitions[o] :
              \/ dfa.transitions[o][s].type = "str"
              \/ Len(dfa.transitions[o][s].val) <= 1

C6_Witness ==
    /\ pc = "converted"
    /\ ~Deterministic(automata)
    /\ Len(automata.alphabet) = 2
    /\ \E o \in DOMAIN dfa.transitions : DOMAIN dfa.transitions[o] # {}

(* C7: the automaton returned by convert_to_dfa satisfies the structural   *)
(* invariants: states pairwise distinct and exactly the minted             *)
(* identifiers, initial_state and final_states in states, transition       *)
(* origins and destinations in states, transition symbols in alphabet.     *)
C7_ResultStructurallyValid ==
    Converted =>
        /\ \A i, j \in 1..Len(dfa.states) : i # j => dfa.states[i] # dfa.states[j]
        /\ Elems(dfa.states) = {<<"q">> \o FormatInt(n) : n \in 0..(state_counter - 1)}
        /\ dfa.initial_state \in Elems(dfa.states)
        /\ Elems(dfa.final_states) \subseteq Elems(dfa.states)
        /\ \A o \in DOMAIN dfa.transitions :
              /\ o \in Elems(dfa.states)
              /\ \A s \in DOMAIN dfa.transitions[o] :
                    /\ s \in Elems(dfa.alphabet)
                    /\ dfa.transitions[o][s].type = "str"
                    /\ dfa.transitions[o][s].val \in Elems(dfa.states)

C7_Witness ==
    /\ pc = "converted"
    /\ Len(dfa.states) >= 2
    /\ dfa.final_states # <<>>
    /\ \E o \in DOMAIN dfa.transitions : DOMAIN dfa.transitions[o] # {}

(* C8: a minted identifier is in the result's final_states iff the set of  *)
(* input states it was minted for contains a final state of the input.     *)
C8_FinalIffMemberFinal ==
    Converted =>
        \A i \in 1..Len(new_states) :
            new_states[i].id \in Elems(dfa.final_states)
            <=> \E m \in Elems(Split(new_states[i].name, ",")) :
                    m \in Elems(automata.final_states)

(* C9: the worklist loop of convert_to_dfa terminates: once the conversion *)
(* has started, states_to_process becomes empty and the function returns.  *)
C9_ConversionTerminates == (pc = "converting") ~> (pc = "converted")

C9_Witness ==
    /\ pc = "converted"
    /\ Cardinality(processed_states) >= 2
    /\ Len(enqueued) >= 3

(* C10: each identifier is put on states_to_process at most once during a  *)
(* run of convert_to_dfa.                                                  *)
C10_EnqueuedAtMostOnce ==
    \A i, j \in 1..Len(enqueued) : i # j => enqueued[i] # enqueued[j]

====
